---------------------------- MODULE Spec2Model ----------------------------
(***************************************************************************)
(* Supervisor runtime of rtadp-c++ (Supervisor.cpp, Worker1.cpp).          *)
(*                                                                         *)
(* Threads: the main thread running listen_for_commands, the two ingress   *)
(* listeners (LP, HP), the result dispatcher listen_for_result and the     *)
(* workers of each WorkerManager.  A command handler is a sequence of      *)
(* statements (cmdOps) that the main thread executes one per step, so the  *)
(* other threads interleave with it exactly as they do in the program.     *)
(***************************************************************************)
EXTENDS Integers, Sequences, FiniteSets, TLC

(* ------------------------------- bounds -------------------------------- *)
MaxFrames == 1          \* frames the external senders deliver per class
MaxCommands == 3        \* envelopes delivered on the command socket
NumWorkers == 1         \* manager_num_workers of the configuration

FanOut == 2             \* managers of the fan-out specification
FanFrames == 2          \* frames per class in the fan-out specification

MaxLines == 2           \* lines of a file named on an ingress socket
MaxFiles == 1           \* frames per class in filename mode
MaxData == 2            \* frames per class in binary mode

(* --------------------------- program constants -------------------------- *)
NumManagers == 1        \* start_managers creates exactly one WorkerManager
Managers == 0 .. (NumManagers - 1)
Workers == 1 .. NumWorkers
Classes == {"LP", "HP"}
name == "sup"           \* Supervisor::name

VARIABLES
    status,        \* Supervisor::status
    continueall,   \* Supervisor::continueall
    stopdata,      \* Supervisor::stopdata
    mstopdata,     \* WorkerManager stopdata flag, per manager
    processdata,   \* WorkerManager processdata flag, per manager
    mstopped,      \* WorkerManager::stop has been called, per manager
    lowQ, highQ,   \* input queues, per manager
    resLpQ, resHpQ,\* result queues, per manager
    lpc,           \* position of each ingress listener
    nframes,       \* frames received so far on each ingress socket
    lframe,        \* the frame a listener has received and not yet handled
    dpc,           \* position of the result dispatcher
    dmgr,          \* indexmanager of the dispatcher's current pass
    ddata,         \* send_result: data
    dchannel,      \* send_result: channel
    wpc,           \* position of each worker
    whand,         \* item a worker has in hand
    cmdpc,         \* position of the main thread
    cmdOps,        \* statements of the handler in progress still to execute
    cur,           \* the envelope being (or last) handled and status at its receipt
    ncmds,         \* envelopes received so far
    signalled,     \* signum of the signal handle_signals has run for, 0 if none
    sentLp, sentHp,\* frames sent on the result sockets, per manager
    monitoring,    \* number of frames sent on the monitoring socket
    cfg            \* the configuration load_configuration has read

vars == << status, continueall, stopdata, mstopdata, processdata, mstopped,
           lowQ, highQ, resLpQ, resHpQ, lpc, nframes, lframe, dpc, dmgr,
           ddata, dchannel, wpc, whand, cmdpc, cmdOps, cur, ncmds, signalled,
           sentLp, sentHp, monitoring, cfg >>

\* Supervisor::manager_workers: the managers that exist
manager_workers == DOMAIN processdata

flagVars == << status, continueall, stopdata, mstopdata, processdata, mstopped >>
queueVars == << lowQ, highQ, resLpQ, resHpQ >>
listenerVars == << lpc, nframes, lframe >>
dispatcherVars == << dpc, dmgr, ddata, dchannel, sentLp, sentHp >>
workerVars == << wpc, whand >>
commandVars == << cmdpc, cmdOps, cur, ncmds, signalled, monitoring >>

(* ------------------------------ data model ------------------------------ *)
\* cls: the class of the ingress socket (item) or the priority the worker was
\* given (result); form: the json type; by: the manager whose worker made it
NoItem == [cls |-> "none", id |-> 0, form |-> "none", by |-> -1]
\* zmq::message_t data before recv has filled it
NoFrame == [kind |-> "none"]

\* a frame received by listen_for_lp_string / listen_for_hp_string
Frame(c, n) == [cls |-> c, id |-> n, form |-> "string", by |-> -1]

\* Worker1::processData: the result is a json object carrying the priority
processData(item, priority) ==
    [cls |-> priority, id |-> item.id, form |-> "object", by |-> -1]

\* dataflow_type is the supervisor's dataflowtype, the other four are the
\* manager's result configuration
Configs ==
    [ dataflow_type : {"string"},
      result_dataflow_type : {"string", "binary"},
      result_lp_socket : {"none", "tcp://lp"},
      result_hp_socket : {"none", "tcp://hp"},
      result_socket_type : {"pushpull"} ]

Subtypes == { "shutdown", "cleanedshutdown", "getstatus", "start", "stop",
              "startprocessing", "stopprocessing", "reset", "stopdata",
              "startdata" }

Env(t, s, target) == [type |-> t, subtype |-> s, pidtarget |-> target, pidsource |-> "ctl"]

\* an envelope whose header names its sender
EnvFrom(t, s, target, source) ==
    [type |-> t, subtype |-> s, pidtarget |-> target, pidsource |-> source]

\* envelopes the control plane sends
Envelopes ==
    { Env(0, s, name) : s \in Subtypes \cup {"nonsense"} }
      \cup { Env(0, s, "other") : s \in {"start", "shutdown", "reset"} }
      \cup { Env(0, "start", t) : t \in {"all", "*"} }
      \cup { Env(1, "start", name), Env(3, "config", name) }

\* cur before the first envelope; prestatus is status at receipt, second says
\* that the envelope is a reset following directly on a handled reset, pending
\* is what a cleanedshutdown found waiting to be processed
NoCmd == [subtype |-> "none", type |-> -1, pidtarget |-> "none",
          pidsource |-> "none", prestatus |-> "none", second |-> FALSE,
          pending |-> {}]

Op(o, a, m) == [op |-> o, arg |-> a, m |-> m]

RECURSIVE ForManagers(_, _, _)
\* for (auto &manager : manager_workers) manager-><o>(a), from manager m on
ForManagers(o, a, m) ==
    IF m \notin manager_workers THEN << >>
    ELSE << Op(o, a, m) >> \o ForManagers(o, a, m + 1)

(* ----------------- command handlers, as statement lists ----------------- *)
command_startdata ==
    << Op("stopdata", FALSE, -1) >> \o ForManagers("set_stopdata", FALSE, 0)

command_stopdata ==
    << Op("stopdata", TRUE, -1) >> \o ForManagers("set_stopdata", TRUE, 0)

\* status = ...; send_info(1, status, ...) is one statement of the list: the
\* monitoring socket is written by this thread only and read by none
command_startprocessing ==
    << Op("status_info", "Processing", -1) >> \o ForManagers("set_processdata", 1, 0)

\* command_stopprocessing that closes the data gate as well
command_stopprocessing_closing ==
    << Op("status_info", "Waiting", -1) >> \o ForManagers("set_processdata", 0, 0)
    \o << Op("stopdata", TRUE, -1) >> \o ForManagers("set_stopdata", TRUE, 0)

command_stopprocessing ==
    << Op("status_info", "Waiting", -1) >> \o ForManagers("set_processdata", 0, 0)

\* command_start with its two calls exchanged
command_start_gate_first == command_startdata \o command_startprocessing

command_start == command_startprocessing \o command_startdata

\* command_stop that also clears the queues of every manager
command_stop_clearing ==
    command_stopdata \o command_stopprocessing \o ForManagers("clean_queue", 0, 0)

command_stop == command_stopdata \o command_stopprocessing

stop_all(fast) ==
    command_stop \o ForManagers("stop", fast, 0) \o << Op("continueall", FALSE, -1) >>

command_shutdown == << Op("status", "Shutdown", -1) >> \o stop_all(FALSE)

RECURSIVE DrainManagers(_)
\* the two polling loops of command_cleanedshutdown, manager by manager
DrainManagers(m) ==
    IF m \notin manager_workers THEN << >>
    ELSE << Op("wait_input", 0, m), Op("wait_result", 0, m) >> \o DrainManagers(m + 1)

\* command_cleanedshutdown without the test of status
command_cleanedshutdown_any_status(st) ==
    << Op("status", "EndingProcessing", -1) >> \o command_stopdata
    \o DrainManagers(0)
    \o << Op("status", "Shutdown", -1) >> \o stop_all(FALSE)

\* command_cleanedshutdown that drains the queues in Waiting too
command_cleanedshutdown_drain_in_waiting(st) ==
    ( IF st \in {"Processing", "Waiting"}
      THEN << Op("status", "EndingProcessing", -1) >> \o command_stopdata
              \o DrainManagers(0)
      ELSE << >> )
    \o << Op("status", "Shutdown", -1) >> \o stop_all(FALSE)

command_cleanedshutdown(st) ==
    ( IF st = "Processing"
      THEN << Op("status", "EndingProcessing", -1) >> \o command_stopdata
              \o DrainManagers(0)
      ELSE << >> )
    \o << Op("status", "Shutdown", -1) >> \o stop_all(FALSE)

\* command_reset without its call of command_stop
command_reset_no_stop(st) ==
    IF st \in {"Processing", "Waiting"}
    THEN ForManagers("clean_queue", 0, 0) \o << Op("status_info", "Waiting", -1) >>
    ELSE << >>

command_reset(st) ==
    IF st \in {"Processing", "Waiting"}
    THEN command_stop \o ForManagers("clean_queue", 0, 0)
         \o << Op("status_info", "Waiting", -1) >>
    ELSE << >>

\* process_command without the pidtarget test
process_command_any_target(env, st) ==
    IF env.type = 0
    THEN CASE env.subtype = "shutdown" -> command_shutdown
           [] env.subtype = "cleanedshutdown" -> command_cleanedshutdown(st)
           [] env.subtype = "getstatus" -> ForManagers("sendto", env.pidsource, 0)
           [] env.subtype = "start" -> command_start
           [] env.subtype = "stop" -> command_stop
           [] env.subtype = "startprocessing" -> command_startprocessing
           [] env.subtype = "stopprocessing" -> command_stopprocessing
           [] env.subtype = "reset" -> command_reset(st)
           [] env.subtype = "stopdata" -> command_stopdata
           [] env.subtype = "startdata" -> command_startdata
           [] OTHER -> << >>
    ELSE IF env.type = 3
         THEN ForManagers("configworkers", 0, 0)
         ELSE << >>

\* process_command answering a getstatus to the command's pidtarget
process_command_echo_target(env, st) ==
    IF env.type = 0 /\ env.subtype = "getstatus"
    THEN IF env.pidtarget = name \/ env.pidtarget = "all" \/ env.pidtarget = "*"
         THEN ForManagers("sendto", env.pidtarget, 0)
         ELSE << >>
    ELSE IF env.type = 0 /\ env.subtype = "start" /\ env.pidtarget = name
         THEN command_start
         ELSE IF env.type = 0 /\ env.subtype = "stop" /\ env.pidtarget = name
              THEN command_stop
              ELSE << >>

\* the statements process_command runs for envelope env when status is st
process_command(env, st) ==
    IF env.type = 0
    THEN IF env.pidtarget = name \/ env.pidtarget = "all" \/ env.pidtarget = "*"
         THEN CASE env.subtype = "shutdown" -> command_shutdown
                [] env.subtype = "cleanedshutdown" -> command_cleanedshutdown(st)
                [] env.subtype = "getstatus" -> ForManagers("sendto", env.pidsource, 0)
                [] env.subtype = "start" -> command_start
                [] env.subtype = "stop" -> command_stop
                [] env.subtype = "startprocessing" -> command_startprocessing
                [] env.subtype = "stopprocessing" -> command_stopprocessing
                [] env.subtype = "reset" -> command_reset(st)
                [] env.subtype = "stopdata" -> command_stopdata
                [] env.subtype = "startdata" -> command_startdata
                [] OTHER -> << >>
         ELSE << >>
    ELSE IF env.type = 3
         THEN ForManagers("configworkers", 0, 0)
         ELSE << >>

\* Supervisor::start entering the command loop without status = "Waiting"
start_without_waiting ==
    << Op("start_service_threads", 0, -1), Op("start_workers", 0, -1) >>

\* Supervisor::start up to the command loop
start ==
    << Op("start_service_threads", 0, -1), Op("start_workers", 0, -1),
       Op("status_info", "Waiting", -1) >>

(* ------------------------------- Init ----------------------------------- *)
\* the state when the constructor has returned and start() is entered, for
\* the set M of managers that start_managers creates
Constructed(M) ==
    /\ status = "Initialised"
    /\ continueall = TRUE
    /\ stopdata = TRUE
    /\ mstopdata = [m \in M |-> TRUE]
    /\ processdata = [m \in M |-> 0]
    /\ mstopped = [m \in M |-> FALSE]
    /\ lowQ = [m \in M |-> << >>]
    /\ highQ = [m \in M |-> << >>]
    /\ resLpQ = [m \in M |-> << >>]
    /\ resHpQ = [m \in M |-> << >>]
    /\ lpc = [c \in Classes |-> "off"]
    /\ nframes = [c \in Classes |-> 0]
    /\ lframe = [c \in Classes |-> NoFrame]
    /\ dpc = "off"
    /\ dmgr = 0
    /\ ddata = NoItem
    /\ dchannel = -1
    /\ wpc = [m \in M |-> [w \in Workers |-> "off"]]
    /\ whand = [m \in M |-> [w \in Workers |-> NoItem]]
    /\ cmdpc = "busy"
    /\ cmdOps = start
    /\ cur = NoCmd
    /\ ncmds = 0
    /\ signalled = 0
    /\ sentLp = [m \in M |-> {}]
    /\ sentHp = [m \in M |-> {}]
    /\ monitoring = 1

Init == Constructed(Managers) /\ cfg \in Configs

(* ------------------- the main thread: handler statements ---------------- *)
HeadIs(o) == cmdpc = "busy" /\ cmdOps # << >> /\ Head(cmdOps).op = o

\* the statement returns; after the last one the handler returns to the
\* while (continueall) test of listen_for_commands
Advance ==
    /\ cmdOps' = Tail(cmdOps)
    /\ cmdpc' = IF Tail(cmdOps) = << >> THEN "loop" ELSE "busy"
    /\ UNCHANGED << cur, ncmds, signalled >>

\* status = "...";
set_status ==
    /\ HeadIs("status")
    /\ status' = Head(cmdOps).arg
    /\ Advance
    /\ UNCHANGED << continueall, stopdata, mstopdata, processdata, mstopped,
                    queueVars, listenerVars, dispatcherVars, workerVars,
                    monitoring, cfg >>

\* status = "..."; send_info(1, status, fullname, 1, "Low");
set_status_send_info ==
    /\ HeadIs("status_info")
    /\ status' = Head(cmdOps).arg
    /\ monitoring' = monitoring + 1
    /\ Advance
    /\ UNCHANGED << continueall, stopdata, mstopdata, processdata, mstopped,
                    queueVars, listenerVars, dispatcherVars, workerVars, cfg >>

\* stopdata = true / false;
set_supervisor_stopdata ==
    /\ HeadIs("stopdata")
    /\ stopdata' = Head(cmdOps).arg
    /\ Advance
    /\ UNCHANGED << status, continueall, mstopdata, processdata, mstopped,
                    queueVars, listenerVars, dispatcherVars, workerVars,
                    monitoring, cfg >>

\* manager->set_stopdata(v)
set_stopdata ==
    /\ HeadIs("set_stopdata")
    /\ mstopdata' = [mstopdata EXCEPT ![Head(cmdOps).m] = Head(cmdOps).arg]
    /\ Advance
    /\ UNCHANGED << status, continueall, stopdata, processdata, mstopped,
                    queueVars, listenerVars, dispatcherVars, workerVars,
                    monitoring, cfg >>

\* manager->set_processdata(v)
set_processdata ==
    /\ HeadIs("set_processdata")
    /\ processdata' = [processdata EXCEPT ![Head(cmdOps).m] = Head(cmdOps).arg]
    /\ Advance
    /\ UNCHANGED << status, continueall, stopdata, mstopdata, mstopped,
                    queueVars, listenerVars, dispatcherVars, workerVars,
                    monitoring, cfg >>

\* manager->stop(fast): the worker tasks are told to exit
stop ==
    /\ HeadIs("stop")
    /\ mstopped' = [mstopped EXCEPT ![Head(cmdOps).m] = TRUE]
    /\ Advance
    /\ UNCHANGED << status, continueall, stopdata, mstopdata, processdata,
                    queueVars, listenerVars, dispatcherVars, workerVars,
                    monitoring, cfg >>

\* continueall = false;
set_continueall ==
    /\ HeadIs("continueall")
    /\ continueall' = Head(cmdOps).arg
    /\ Advance
    /\ UNCHANGED << status, stopdata, mstopdata, processdata, mstopped,
                    queueVars, listenerVars, dispatcherVars, workerVars,
                    monitoring, cfg >>

\* while (LowPriorityQueue.size() != 0 || HighPriorityQueue.size() != 0) sleep(200ms)
wait_input ==
    /\ HeadIs("wait_input")
    /\ lowQ[Head(cmdOps).m] = << >>
    /\ highQ[Head(cmdOps).m] = << >>
    /\ Advance
    /\ UNCHANGED << flagVars, queueVars, listenerVars, dispatcherVars,
                    workerVars, monitoring, cfg >>

\* while (ResultLpQueue.size() != 0 || ResultHpQueue.size() != 0) sleep(200ms)
wait_result ==
    /\ HeadIs("wait_result")
    /\ resLpQ[Head(cmdOps).m] = << >>
    /\ resHpQ[Head(cmdOps).m] = << >>
    /\ Advance
    /\ UNCHANGED << flagVars, queueVars, listenerVars, dispatcherVars,
                    workerVars, monitoring, cfg >>

\* manager->clean_queue(): all four queues are cleared at once
clean_queue ==
    /\ HeadIs("clean_queue")
    /\ lowQ' = [lowQ EXCEPT ![Head(cmdOps).m] = << >>]
    /\ highQ' = [highQ EXCEPT ![Head(cmdOps).m] = << >>]
    /\ resLpQ' = [resLpQ EXCEPT ![Head(cmdOps).m] = << >>]
    /\ resHpQ' = [resHpQ EXCEPT ![Head(cmdOps).m] = << >>]
    /\ Advance
    /\ UNCHANGED << flagVars, listenerVars, dispatcherVars, workerVars,
                    monitoring, cfg >>

\* manager->getMonitoringThread()->sendto(pidsource): one heartbeat frame
sendto ==
    /\ HeadIs("sendto")
    /\ monitoring' = monitoring + 1
    /\ Advance
    /\ UNCHANGED << flagVars, queueVars, listenerVars, dispatcherVars,
                    workerVars, cfg >>

\* manager->configworkers(command): forwarded to the workers' config
configworkers ==
    /\ HeadIs("configworkers")
    /\ Advance
    /\ UNCHANGED << flagVars, queueVars, listenerVars, dispatcherVars,
                    workerVars, monitoring, cfg >>

\* start_service_threads(): the two listeners and the dispatcher are launched
start_service_threads ==
    /\ HeadIs("start_service_threads")
    /\ lpc' = [c \in Classes |-> "loop"]
    /\ dpc' = "loop"
    /\ Advance
    /\ UNCHANGED << flagVars, queueVars, nframes, lframe, dmgr, ddata, dchannel,
                    sentLp, sentHp, workerVars, monitoring, cfg >>

\* start_managers(); start_workers(): the worker tasks are launched
start_workers ==
    /\ HeadIs("start_workers")
    /\ wpc' = [m \in manager_workers |-> [w \in Workers |-> "idle"]]
    /\ Advance
    /\ UNCHANGED << flagVars, queueVars, listenerVars, dispatcherVars, whand,
                    monitoring, cfg >>

(* --------------------- the main thread: command loop -------------------- *)
\* while (continueall) of listen_for_commands and of start
command_loop ==
    /\ cmdpc = "loop"
    /\ cmdpc' = IF continueall THEN "recv" ELSE "done"
    /\ UNCHANGED << flagVars, queueVars, listenerVars, dispatcherVars,
                    workerVars, cmdOps, cur, ncmds, signalled, monitoring,
                    cfg >>

\* the LP items that are in an input queue or in a worker's hand, as pairs of
\* manager and item id
Pending ==
    UNION { { << m, lowQ[m][i].id >> : i \in 1 .. Len(lowQ[m]) } : m \in manager_workers }
    \cup { << x[1], whand[x[1]][x[2]].id >> :
              x \in { y \in manager_workers \X Workers : whand[y[1]][y[2]].cls = "LP" } }

\* socket_command->recv; json::parse; process_command(command)
listen_for_commands(env) ==
    /\ cmdpc = "recv"
    /\ ncmds < MaxCommands
    /\ ncmds' = ncmds + 1
    /\ cur' = [subtype |-> env.subtype, type |-> env.type,
               pidtarget |-> env.pidtarget, pidsource |-> env.pidsource,
               prestatus |-> status,
               second |-> /\ env.subtype = "reset" /\ cur.subtype = "reset"
                          /\ process_command(env, status) # << >>
                          /\ process_command(Env(cur.type, "reset", cur.pidtarget),
                                             cur.prestatus) # << >>,
               pending |-> IF env.subtype = "cleanedshutdown" THEN Pending ELSE {}]
    /\ cmdOps' = process_command(env, status)
    /\ cmdpc' = IF process_command(env, status) = << >> THEN "loop" ELSE "busy"
    /\ UNCHANGED << flagVars, queueVars, listenerVars, dispatcherVars,
                    workerVars, signalled, monitoring, cfg >>

\* frames on the command socket that are not a well-formed envelope: a text
\* that is not json, and envelopes whose header lacks a field
BadCommandFrames == { "notjson", "nosubtype", "nopidsource" }

\* json::parse throws on a text that is not json. command["header"][key] on
\* the const json of process_command, for a key that is absent, is undefined:
\* the library's assertion aborts the process, or the read goes on and get<>
\* throws a type_error
Outcomes(frame) == IF frame = "notjson" THEN { "throw" } ELSE { "throw", "abort" }

\* socket_command->recv; json::parse or process_command throws: the exception
\* leaves listen_for_commands and the while loop of start(), whose catch runs
\* command_shutdown, after which start() returns
listen_for_commands_throws(frame, outcome) ==
    /\ cmdpc = "recv"
    /\ ncmds < MaxCommands
    /\ outcome \in Outcomes(frame)
    /\ ncmds' = ncmds + 1
    /\ cur' = [NoCmd EXCEPT !.subtype = frame, !.prestatus = status]
    /\ IF outcome = "abort"
       THEN /\ lpc' = [k \in Classes |-> "terminate"]
            /\ dpc' = "terminate"
            /\ cmdpc' = "terminate"
            /\ wpc' = [m \in manager_workers |-> [w \in Workers |-> "terminate"]]
            /\ cmdOps' = << >>
       ELSE /\ cmdOps' = command_shutdown
            /\ cmdpc' = "busy"
            /\ UNCHANGED << lpc, dpc, wpc >>
    /\ UNCHANGED << flagVars, queueVars, nframes, lframe, dmgr, ddata, dchannel,
                    sentLp, sentHp, whand, signalled, monitoring, cfg >>

(* -------------------------------- signals ------------------------------- *)
SIGINT == 2
SIGTERM == 15

\* the signals the constructor installs handle_signals for
Signals == { SIGINT, SIGTERM }

\* the statements of handle_signals(signum) when status is st
handle_signals_body(signum, st) ==
    IF signum = SIGTERM THEN command_cleanedshutdown(st) ELSE command_shutdown

\* a signal is delivered to the main thread, which runs handle_signals at
\* once, wherever it is: in front of what is left of the handler in progress,
\* or inside socket_command->recv, which then fails with EINTR and throws, so
\* that the catch of start() runs command_shutdown. A signal during start(),
\* before the command loop, is left out, and so is a second signal
handle_signals(signum) ==
    /\ signalled = 0
    /\ cmdpc \in { "loop", "recv", "busy" }
    /\ ncmds > 0 \/ cmdpc # "busy"
    /\ signalled' = signum
    /\ cmdOps' = handle_signals_body(signum, status)
                 \o (IF cmdpc = "recv" THEN command_shutdown ELSE cmdOps)
    /\ cmdpc' = "busy"
    /\ UNCHANGED << flagVars, queueVars, listenerVars, dispatcherVars,
                    workerVars, cur, ncmds, monitoring, cfg >>

(* --------------------------- ingress listeners -------------------------- *)
\* while (continueall) { if (!stopdata) { ... : the listener passes the gate and
\* enters socket_*_data->recv, or leaves the loop
listen_for_string_gate(c) ==
    /\ lpc[c] = "loop"
    /\ ~continueall \/ ~stopdata
    /\ lpc' = [lpc EXCEPT ![c] = IF ~continueall THEN "done" ELSE "recv"]
    /\ UNCHANGED << flagVars, queueVars, nframes, lframe, dispatcherVars,
                    workerVars, commandVars, cfg >>

\* the listener with a push into the first manager's queue only
recv_string_first_manager(c, limit) ==
    /\ lpc[c] = "recv"
    /\ cfg.dataflow_type = "string"
    /\ nframes[c] < limit
    /\ nframes' = [nframes EXCEPT ![c] = @ + 1]
    /\ IF c = "HP"
       THEN /\ highQ' = [highQ EXCEPT ![0] = Append(@, Frame(c, nframes[c] + 1))]
            /\ UNCHANGED lowQ
       ELSE /\ lowQ' = [lowQ EXCEPT ![0] = Append(@, Frame(c, nframes[c] + 1))]
            /\ UNCHANGED highQ
    /\ lpc' = [lpc EXCEPT ![c] = "loop"]
    /\ UNCHANGED << flagVars, resLpQ, resHpQ, lframe, dispatcherVars, workerVars,
                    commandVars, cfg >>

\* recv returns a frame, the senders delivering at most limit frames; it is
\* pushed into the class's input queue of every manager
recv_string(c, limit) ==
    /\ lpc[c] = "recv"
    /\ cfg.dataflow_type = "string"
    /\ nframes[c] < limit
    /\ nframes' = [nframes EXCEPT ![c] = @ + 1]
    /\ IF c = "HP"
       THEN /\ highQ' = [m \in manager_workers |-> Append(highQ[m], Frame(c, nframes[c] + 1))]
            /\ UNCHANGED lowQ
       ELSE /\ lowQ' = [m \in manager_workers |-> Append(lowQ[m], Frame(c, nframes[c] + 1))]
            /\ UNCHANGED highQ
    /\ lpc' = [lpc EXCEPT ![c] = "loop"]
    /\ UNCHANGED << flagVars, resLpQ, resHpQ, lframe, dispatcherVars, workerVars,
                    commandVars, cfg >>

listen_for_string_recv(c) == recv_string(c, MaxFrames)

(* ---------------------- ingress listeners, filename mode ---------------- *)
\* a line parses as json, fails to parse, or is empty
Lines == {"json", "garbage", "empty"}

\* the files a received path can name: one that cannot be opened, or one that
\* opens and has up to MaxLines lines
Files ==
    { [opens |-> FALSE, lines |-> << >>] }
    \cup { [opens |-> TRUE, lines |-> l] :
             l \in UNION { [1 .. n -> Lines] : n \in 0 .. MaxLines } }

RECURSIVE ParsedFrom(_, _)
\* the while (std::getline) loop of open_file from line i on: the numbers of the
\* lines pushed into data; a line that fails to parse ends the loop, and what
\* data holds by then is kept
ParsedFrom(lines, i) ==
    IF i > Len(lines) THEN << >>
    ELSE IF lines[i] = "empty" THEN ParsedFrom(lines, i + 1)
    ELSE IF lines[i] = "json" THEN << i >> \o ParsedFrom(lines, i + 1)
    ELSE << >>

\* open_file(filename): the records it returns (size is their number)
open_file(file) == IF ~file.opens THEN << >> ELSE ParsedFrom(file.lines, 1)

\* the record of line i of the n-th file received on the socket of class c
Record(c, n, i) == [cls |-> c, id |-> (MaxLines + 1) * n + i, form |-> "object", by |-> -1]

\* the items listen_for_lp_file / listen_for_hp_file pushes for a file
FileItems(c, n, file) ==
    [k \in 1 .. Len(open_file(file)) |-> Record(c, n, open_file(file)[k])]

\* socket_*_data->recv(filename_msg)
listen_for_file_recv(c, file) ==
    /\ lpc[c] = "recv"
    /\ cfg.dataflow_type = "filename"
    /\ nframes[c] < MaxFiles
    /\ nframes' = [nframes EXCEPT ![c] = @ + 1]
    /\ lframe' = [lframe EXCEPT ![c] = [kind |-> "filename", file |-> file]]
    /\ lpc' = [lpc EXCEPT ![c] = "open"]
    /\ UNCHANGED << flagVars, queueVars, dispatcherVars, workerVars,
                    commandVars, cfg >>

\* for (auto &manager : manager_workers) { open_file(filename); push data[i] }
listen_for_file_push(c) ==
    /\ lpc[c] = "open"
    /\ IF c = "HP"
       THEN /\ highQ' = [m \in manager_workers |->
                           highQ[m] \o FileItems(c, nframes[c], lframe[c].file)]
            /\ UNCHANGED lowQ
       ELSE /\ lowQ' = [m \in manager_workers |->
                          lowQ[m] \o FileItems(c, nframes[c], lframe[c].file)]
            /\ UNCHANGED highQ
    /\ lframe' = [lframe EXCEPT ![c] = NoFrame]
    /\ lpc' = [lpc EXCEPT ![c] = "loop"]
    /\ UNCHANGED << flagVars, resLpQ, resHpQ, nframes, dispatcherVars,
                    workerVars, commandVars, cfg >>

(* ----------------------- ingress listeners, binary mode ----------------- *)
\* the text of a frame parses as json or does not
DataFrames == {"json", "garbage"}

\* the decoded item of the n-th frame received on the socket of class c
Datum(c, n) == [cls |-> c, id |-> n, form |-> "object", by |-> -1]

\* socket_*_data->recv(data)
listen_for_data_recv(c, text) ==
    /\ lpc[c] = "recv"
    /\ cfg.dataflow_type = "binary"
    /\ nframes[c] < MaxData
    /\ nframes' = [nframes EXCEPT ![c] = @ + 1]
    /\ lframe' = [lframe EXCEPT ![c] = [kind |-> "binary", text |-> text]]
    /\ lpc' = [lpc EXCEPT ![c] = "parse"]
    /\ UNCHANGED << flagVars, queueVars, dispatcherVars, workerVars,
                    commandVars, cfg >>

\* for (auto &manager : manager_workers) { json::parse(data.to_string()); push }
\* json::parse throws on a text that is not json; nothing in the thread's
\* function catches it, so std::terminate is called and the process, with all
\* its threads, is gone
listen_for_data_parse(c) ==
    /\ lpc[c] = "parse"
    /\ IF lframe[c].text = "garbage"
       THEN /\ lpc' = [k \in Classes |-> "terminate"]
            /\ dpc' = "terminate"
            /\ cmdpc' = "terminate"
            /\ wpc' = [m \in manager_workers |-> [w \in Workers |-> "terminate"]]
            /\ UNCHANGED << lowQ, highQ, lframe >>
       ELSE /\ IF c = "HP"
               THEN /\ highQ' = [m \in manager_workers |->
                                   Append(highQ[m], Datum(c, nframes[c]))]
                    /\ UNCHANGED lowQ
               ELSE /\ lowQ' = [m \in manager_workers |->
                                  Append(lowQ[m], Datum(c, nframes[c]))]
                    /\ UNCHANGED highQ
            /\ lframe' = [lframe EXCEPT ![c] = NoFrame]
            /\ lpc' = [lpc EXCEPT ![c] = "loop"]
            /\ UNCHANGED << dpc, cmdpc, wpc >>
    /\ UNCHANGED << flagVars, resLpQ, resHpQ, nframes, dmgr, ddata, dchannel,
                    sentLp, sentHp, whand, cmdOps, cur, ncmds, signalled,
                    monitoring, cfg >>

(* ---------------------------- result dispatcher ------------------------- *)
\* while (continueall) { for (auto &manager : manager_workers) send_result(...) }
listen_for_result ==
    /\ dpc = "loop"
    /\ dpc' = IF continueall THEN "size" ELSE "done"
    /\ UNCHANGED << flagVars, queueVars, listenerVars, dmgr, ddata, dchannel,
                    sentLp, sentHp, workerVars, commandVars, cfg >>

\* send_result returns: the pass goes on to the next manager or the loop test
SendResultReturns ==
    /\ dpc' = IF dmgr + 1 \in manager_workers THEN "size" ELSE "loop"
    /\ dmgr' = IF dmgr + 1 \in manager_workers THEN dmgr + 1 ELSE 0
    /\ ddata' = NoItem
    /\ dchannel' = -1

\* if (ResultLpQueue.size() == 0 && ResultHpQueue.size() == 0) return;
send_result_size ==
    /\ dpc = "size"
    /\ IF resLpQ[dmgr] = << >> /\ resHpQ[dmgr] = << >>
       THEN SendResultReturns
       ELSE dpc' = "hp" /\ UNCHANGED << dmgr, ddata, dchannel >>
    /\ UNCHANGED << flagVars, queueVars, listenerVars, sentLp, sentHp,
                    workerVars, commandVars, cfg >>

\* send_result with the LP queue tried first: the HP attempt is skipped
send_result_hp_front_skipped ==
    /\ dpc = "hp"
    /\ dpc' = "lp"
    /\ UNCHANGED << ddata, dchannel >>
    /\ UNCHANGED << flagVars, queueVars, listenerVars, dmgr, sentLp, sentHp,
                    workerVars, commandVars, cfg >>

\* try { channel = 1; data = ResultHpQueue.front();  (throws on an empty queue)
send_result_hp_front ==
    /\ dpc = "hp"
    /\ IF resHpQ[dmgr] # << >>
       THEN /\ ddata' = Head(resHpQ[dmgr])
            /\ dchannel' = 1
            /\ dpc' = "hp_pop"
       ELSE /\ dpc' = "lp"
            /\ UNCHANGED << ddata, dchannel >>
    /\ UNCHANGED << flagVars, queueVars, listenerVars, dmgr, sentLp, sentHp,
                    workerVars, commandVars, cfg >>

\* ResultHpQueue.pop(); } catch (...) {
send_result_hp_pop ==
    /\ dpc = "hp_pop"
    /\ IF resHpQ[dmgr] # << >>
       THEN /\ resHpQ' = [resHpQ EXCEPT ![dmgr] = Tail(@)]
            /\ dpc' = "send"
       ELSE /\ dpc' = "lp"
            /\ UNCHANGED resHpQ
    /\ UNCHANGED << flagVars, lowQ, highQ, resLpQ, listenerVars, dmgr, ddata,
                    dchannel, sentLp, sentHp, workerVars, commandVars, cfg >>

\* try { channel = 0; data = ResultLpQueue.front(); ... } catch (...) { return; }
send_result_lp_front ==
    /\ dpc = "lp"
    /\ IF resLpQ[dmgr] # << >>
       THEN /\ ddata' = Head(resLpQ[dmgr])
            /\ dchannel' = 0
            /\ dpc' = "lp_pop"
            /\ UNCHANGED dmgr
       ELSE SendResultReturns
    /\ UNCHANGED << flagVars, queueVars, listenerVars, sentLp, sentHp,
                    workerVars, commandVars, cfg >>

\* ResultLpQueue.pop(); } catch (...) { return; }
send_result_lp_pop ==
    /\ dpc = "lp_pop"
    /\ IF resLpQ[dmgr] # << >>
       THEN /\ resLpQ' = [resLpQ EXCEPT ![dmgr] = Tail(@)]
            /\ dpc' = "send"
            /\ UNCHANGED << dmgr, ddata, dchannel >>
       ELSE /\ SendResultReturns
            /\ UNCHANGED resLpQ
    /\ UNCHANGED << flagVars, lowQ, highQ, resHpQ, listenerVars, sentLp, sentHp,
                    workerVars, commandVars, cfg >>

\* data.get<std::string>() succeeds on a json string only; data.dump() always
Sendable(data) ==
    IF cfg.result_dataflow_type = "binary" THEN TRUE ELSE data.form = "string"

\* setup_result_channel: socket_lp_result[indexmanager] (channel 0) or
\* socket_hp_result[indexmanager] (channel 1), which is the same for every
\* manager: a socket is made for an endpoint other than "none" when the kind
\* is pushpull or pubsub, and the pointer stays null otherwise
socket_result(channel) ==
    IF /\ (IF channel = 0 THEN cfg.result_lp_socket ELSE cfg.result_hp_socket) # "none"
       /\ cfg.result_socket_type \in { "pushpull", "pubsub" }
    THEN cfg.result_socket_type
    ELSE "nullptr"

\* send_result, with the result in hand, reaches socket_*_result[...]->send
Attempted ==
    /\ (IF dchannel = 0 THEN cfg.result_lp_socket ELSE cfg.result_hp_socket) # "none"
    /\ Sendable(ddata)

\* socket_*_result[indexmanager]->send(...) through a null pointer: undefined,
\* in practice a read through address 0 in zmq::socket_t::send, which ends
\* the process with all its threads; nothing is sent
send_result_send_nullptr ==
    /\ dpc = "send"
    /\ Attempted /\ socket_result(dchannel) = "nullptr"
    /\ lpc' = [k \in Classes |-> "terminate"]
    /\ dpc' = "terminate"
    /\ cmdpc' = "terminate"
    /\ wpc' = [m \in manager_workers |-> [w \in Workers |-> "terminate"]]
    /\ UNCHANGED << flagVars, queueVars, nframes, lframe, dmgr, ddata, dchannel,
                    sentLp, sentHp, whand, cmdOps, cur, ncmds, signalled,
                    monitoring, cfg >>

\* send_result without the two tests of the endpoint being "none"
send_result_send_none_untested ==
    /\ dpc = "send"
    /\ IF dchannel = 0
       THEN /\ sentLp' = IF Sendable(ddata)
                         THEN [sentLp EXCEPT ![dmgr] = @ \cup {ddata}]
                         ELSE sentLp
            /\ UNCHANGED sentHp
       ELSE /\ sentHp' = IF Sendable(ddata)
                         THEN [sentHp EXCEPT ![dmgr] = @ \cup {ddata}]
                         ELSE sentHp
            /\ UNCHANGED sentLp
    /\ SendResultReturns
    /\ UNCHANGED << flagVars, queueVars, listenerVars, workerVars,
                    commandVars, cfg >>

\* send_result with the two result sockets exchanged
send_result_send_crossed ==
    /\ dpc = "send"
    /\ IF dchannel = 1
       THEN /\ sentLp' = IF cfg.result_lp_socket # "none" /\ Sendable(ddata)
                         THEN [sentLp EXCEPT ![dmgr] = @ \cup {ddata}]
                         ELSE sentLp
            /\ UNCHANGED sentHp
       ELSE /\ sentHp' = IF cfg.result_hp_socket # "none" /\ Sendable(ddata)
                         THEN [sentHp EXCEPT ![dmgr] = @ \cup {ddata}]
                         ELSE sentHp
            /\ UNCHANGED sentLp
    /\ SendResultReturns
    /\ UNCHANGED << flagVars, queueVars, listenerVars, workerVars,
                    commandVars, cfg >>

\* if (channel == 0) {...} if (channel == 1) {...}: the frame goes out on the
\* socket of its channel, unless the endpoint is "none" or the send throws
send_result_send ==
    /\ dpc = "send"
    /\ Attempted => socket_result(dchannel) # "nullptr"
    /\ IF dchannel = 0
       THEN /\ sentLp' = IF cfg.result_lp_socket # "none" /\ Sendable(ddata)
                         THEN [sentLp EXCEPT ![dmgr] = @ \cup {ddata}]
                         ELSE sentLp
            /\ UNCHANGED sentHp
       ELSE /\ sentHp' = IF cfg.result_hp_socket # "none" /\ Sendable(ddata)
                         THEN [sentHp EXCEPT ![dmgr] = @ \cup {ddata}]
                         ELSE sentHp
            /\ UNCHANGED sentLp
    /\ SendResultReturns
    /\ UNCHANGED << flagVars, queueVars, listenerVars, workerVars,
                    commandVars, cfg >>

(* -------------------------------- workers ------------------------------- *)
\* a worker task that tries the LP queue first
worker_pop_lp_first(m, w) ==
    /\ wpc[m][w] = "idle"
    /\ continueall /\ ~mstopped[m]
    /\ processdata[m] = 1
    /\ IF lowQ[m] # << >>
       THEN /\ whand' = [whand EXCEPT ![m][w] = Head(lowQ[m])]
            /\ lowQ' = [lowQ EXCEPT ![m] = Tail(@)]
            /\ UNCHANGED highQ
       ELSE /\ highQ[m] # << >>
            /\ whand' = [whand EXCEPT ![m][w] = Head(highQ[m])]
            /\ highQ' = [highQ EXCEPT ![m] = Tail(@)]
            /\ UNCHANGED lowQ
    /\ wpc' = [wpc EXCEPT ![m][w] = "busy"]
    /\ UNCHANGED << flagVars, resLpQ, resHpQ, listenerVars, dispatcherVars,
                    commandVars, cfg >>

\* a worker task with processdata = 1 pops from the HP queue if it is
\* non-empty, else from the LP queue
worker_pop(m, w) ==
    /\ wpc[m][w] = "idle"
    /\ continueall /\ ~mstopped[m]
    /\ processdata[m] = 1
    /\ IF highQ[m] # << >>
       THEN /\ whand' = [whand EXCEPT ![m][w] = Head(highQ[m])]
            /\ highQ' = [highQ EXCEPT ![m] = Tail(@)]
            /\ UNCHANGED lowQ
       ELSE /\ lowQ[m] # << >>
            /\ whand' = [whand EXCEPT ![m][w] = Head(lowQ[m])]
            /\ lowQ' = [lowQ EXCEPT ![m] = Tail(@)]
            /\ UNCHANGED highQ
    /\ wpc' = [wpc EXCEPT ![m][w] = "busy"]
    /\ UNCHANGED << flagVars, resLpQ, resHpQ, listenerVars, dispatcherVars,
                    commandVars, cfg >>

\* worker.process returns; the result is pushed into the matching result queue
worker_push(m, w) ==
    /\ wpc[m][w] = "busy"
    /\ IF whand[m][w].cls = "HP"
       THEN /\ resHpQ' = [resHpQ EXCEPT ![m] = Append(@, [processData(whand[m][w], "HP") EXCEPT !.by = m])]
            /\ UNCHANGED resLpQ
       ELSE /\ resLpQ' = [resLpQ EXCEPT ![m] = Append(@, [processData(whand[m][w], "LP") EXCEPT !.by = m])]
            /\ UNCHANGED resHpQ
    /\ whand' = [whand EXCEPT ![m][w] = NoItem]
    /\ wpc' = [wpc EXCEPT ![m][w] = "idle"]
    /\ UNCHANGED << flagVars, lowQ, highQ, listenerVars, dispatcherVars,
                    commandVars, cfg >>

\* the worker task ends when its manager is stopped or continueall is false
worker_exit(m, w) ==
    /\ wpc[m][w] = "idle"
    /\ mstopped[m] \/ ~continueall
    /\ wpc' = [wpc EXCEPT ![m][w] = "done"]
    /\ UNCHANGED << flagVars, queueVars, listenerVars, dispatcherVars, whand,
                    commandVars, cfg >>

(* ----------------------------- specification ---------------------------- *)
MainThread ==
    \/ set_status \/ set_status_send_info \/ set_supervisor_stopdata
    \/ set_stopdata \/ set_processdata \/ stop \/ set_continueall
    \/ wait_input \/ wait_result \/ clean_queue \/ sendto \/ configworkers
    \/ start_service_threads \/ start_workers \/ command_loop
    \/ \E env \in Envelopes : listen_for_commands(env)

Listeners ==
    \E c \in Classes : listen_for_string_gate(c) \/ listen_for_string_recv(c)

Dispatcher ==
    \/ listen_for_result \/ send_result_size \/ send_result_hp_front
    \/ send_result_hp_pop \/ send_result_lp_front \/ send_result_lp_pop
    \/ send_result_send

WorkerTasks ==
    \E m \in manager_workers, w \in Workers :
        worker_pop(m, w) \/ worker_push(m, w) \/ worker_exit(m, w)

Next == MainThread \/ Listeners \/ Dispatcher \/ WorkerTasks

Spec == Init /\ [][Next]_vars

\* what the main thread does by itself, i.e. all but the arrival of an envelope
MainSteps ==
    \/ set_status \/ set_status_send_info \/ set_supervisor_stopdata
    \/ set_stopdata \/ set_processdata \/ stop \/ set_continueall
    \/ wait_input \/ wait_result \/ clean_queue \/ sendto \/ configworkers
    \/ start_service_threads \/ start_workers \/ command_loop

\* the main thread, the dispatcher and every worker are scheduled again and
\* again; nothing is assumed of the senders of frames and envelopes
Fairness ==
    /\ WF_vars(MainSteps)
    /\ WF_vars(Dispatcher)
    /\ \A m \in Managers, w \in Workers :
          WF_vars(worker_pop(m, w) \/ worker_push(m, w) \/ worker_exit(m, w))

\* the configurations of the fair specification: every result is sent, or
\* every result is discarded
FairConfigs ==
    { [dataflow_type |-> "string", result_dataflow_type |-> "binary",
       result_lp_socket |-> "tcp://lp", result_hp_socket |-> "tcp://hp",
              result_socket_type |-> "pushpull"],
      [dataflow_type |-> "string", result_dataflow_type |-> "string",
       result_lp_socket |-> "none", result_hp_socket |-> "none",
       result_socket_type |-> "pushpull"] }

FairInit == Init /\ cfg \in FairConfigs

FairSpec == FairInit /\ [][Next]_vars /\ Fairness

\* a listener that can test continueall and stopdata does so; no frame is
\* assumed to arrive on an ingress socket
ListenerFairness == \A c \in Classes : WF_vars(listen_for_string_gate(c))

CancelSpec == FairInit /\ [][Next]_vars /\ Fairness /\ ListenerFairness

\* the configurations with one result endpoint "none" and the other one set
DeadEndInit ==
    /\ Init
    /\ cfg.result_dataflow_type = "binary"
    /\ (cfg.result_lp_socket = "none") # (cfg.result_hp_socket = "none")

\* the commands that move results or end the dispatcher
DeadEndEnvelopes ==
    { Env(0, s, name) : s \in {"start", "stop", "reset", "shutdown", "cleanedshutdown"} }

DeadEndMain ==
    \/ set_status \/ set_status_send_info \/ set_supervisor_stopdata
    \/ set_stopdata \/ set_processdata \/ stop \/ set_continueall
    \/ wait_input \/ wait_result \/ clean_queue
    \/ start_service_threads \/ start_workers \/ command_loop
    \/ \E env \in DeadEndEnvelopes : listen_for_commands(env)

DeadEndNext == DeadEndMain \/ Listeners \/ Dispatcher \/ WorkerTasks

DeadEndSpec == DeadEndInit /\ [][DeadEndNext]_vars /\ Fairness

(* --------------- ingress in filename mode, without processing ---------- *)
\* the commands that open and close the ingress gate
IngressEnvelopes == { Env(0, "startdata", name), Env(0, "stopdata", name) }

\* the main thread running start and these two commands: processdata stays 0,
\* so that no worker takes an item
IngressMain ==
    \/ set_status_send_info \/ set_supervisor_stopdata \/ set_stopdata
    \/ start_service_threads \/ start_workers \/ command_loop
    \/ \E env \in IngressEnvelopes : listen_for_commands(env)

FileInit ==
    /\ Constructed(Managers)
    /\ cfg = [dataflow_type |-> "filename", result_dataflow_type |-> "binary",
              result_lp_socket |-> "tcp://lp", result_hp_socket |-> "tcp://hp",
              result_socket_type |-> "pushpull"]

FileListeners ==
    \E c \in Classes :
        \/ listen_for_string_gate(c)
        \/ \E file \in Files : listen_for_file_recv(c, file)
        \/ listen_for_file_push(c)

FileNext == IngressMain \/ FileListeners

FileSpec == FileInit /\ [][FileNext]_vars

(* ---------------- ingress in binary mode, without processing ----------- *)
BinaryInit ==
    /\ Constructed(Managers)
    /\ cfg = [dataflow_type |-> "binary", result_dataflow_type |-> "binary",
              result_lp_socket |-> "tcp://lp", result_hp_socket |-> "tcp://hp",
              result_socket_type |-> "pushpull"]

BinaryListeners ==
    \E c \in Classes :
        \/ listen_for_string_gate(c)
        \/ \E text \in DataFrames : listen_for_data_recv(c, text)
        \/ listen_for_data_parse(c)

BinaryNext == IngressMain \/ BinaryListeners

BinarySpec == BinaryInit /\ [][BinaryNext]_vars

(* ------------------ the listeners' fan-out to several managers ---------- *)
\* manager_workers holding FanOut managers: the listeners' loop over
\* manager_workers, run with the start and stop commands and the workers (the
\* dispatcher takes nothing from an input queue and is left unscheduled)
FanManagers == 0 .. (FanOut - 1)

FanInit ==
    /\ Constructed(FanManagers)
    /\ cfg = [dataflow_type |-> "string", result_dataflow_type |-> "binary",
              result_lp_socket |-> "tcp://lp", result_hp_socket |-> "tcp://hp",
              result_socket_type |-> "pushpull"]

FanEnvelopes == { Env(0, "start", name), Env(0, "stop", name) }

FanMain ==
    \/ set_status_send_info \/ set_supervisor_stopdata \/ set_stopdata
    \/ set_processdata \/ start_service_threads \/ start_workers \/ command_loop
    \/ \E env \in FanEnvelopes : listen_for_commands(env)

FanListeners ==
    \E c \in Classes : listen_for_string_gate(c) \/ recv_string(c, FanFrames)

FanWorkers ==
    \E m \in manager_workers, w \in Workers : worker_pop(m, w) \/ worker_push(m, w)

FanNext == FanMain \/ FanListeners \/ FanWorkers

FanSpec == FanInit /\ [][FanNext]_vars

(* ------------------- the kinds of the result sockets -------------------- *)
\* result_socket_type as the configuration file gives it: one of the two
\* kinds setup_result_channel knows, or another text
SocketInit ==
    /\ Constructed(Managers)
    /\ cfg \in [ dataflow_type : {"string"},
                  result_dataflow_type : {"binary"},
                  result_lp_socket : {"tcp://lp"},
                  result_hp_socket : {"none", "tcp://hp"},
                  result_socket_type : {"pushpull", "pubsub", "custom"} ]

SocketNext ==
    \/ FanMain \/ Listeners \/ FanWorkers \/ Dispatcher \/ send_result_send_nullptr

SocketSpec == SocketInit /\ [][SocketNext]_vars

(* ------------- the command loop with bad frames and signals ------------ *)
ControlInit ==
    /\ Constructed(Managers)
    /\ cfg = [dataflow_type |-> "string", result_dataflow_type |-> "binary",
              result_lp_socket |-> "tcp://lp", result_hp_socket |-> "tcp://hp",
              result_socket_type |-> "pushpull"]

\* the commands that write the flags
ControlEnvelopes ==
    { Env(0, s, name) : s \in { "start", "stop", "startdata", "stopdata",
                                "startprocessing", "stopprocessing", "reset",
                                "shutdown" } }

\* the main thread alone: no frame arrives on an ingress socket, so that the
\* queues stay empty
ControlNext ==
    \/ set_status \/ set_status_send_info \/ set_supervisor_stopdata
    \/ set_stopdata \/ set_processdata \/ stop \/ set_continueall
    \/ wait_input \/ wait_result \/ clean_queue
    \/ start_service_threads \/ start_workers \/ command_loop
    \/ \E env \in ControlEnvelopes : listen_for_commands(env)
    \/ \E frame \in BadCommandFrames, outcome \in { "throw", "abort" } :
          listen_for_commands_throws(frame, outcome)
    \/ \E signum \in Signals : handle_signals(signum)

ControlSpec == ControlInit /\ [][ControlNext]_vars

(* ------------------- getstatus, with several managers ------------------ *)
\* getstatus from two senders, to this supervisor, to all and to another one,
\* between start and stop, with manager_workers holding FanOut managers
StatusInit ==
    /\ Constructed(FanManagers)
    /\ cfg = [dataflow_type |-> "string", result_dataflow_type |-> "binary",
              result_lp_socket |-> "tcp://lp", result_hp_socket |-> "tcp://hp",
              result_socket_type |-> "pushpull"]

StatusEnvelopes ==
    { EnvFrom(0, "getstatus", t, s) : t \in {name, "all", "other"}, s \in {"ctl", "mon"} }
      \cup { Env(0, "start", name), Env(0, "stop", name) }

StatusMain ==
    \/ set_status_send_info \/ set_supervisor_stopdata \/ set_stopdata
    \/ set_processdata \/ sendto \/ start_service_threads \/ start_workers
    \/ command_loop
    \/ \E env \in StatusEnvelopes : listen_for_commands(env)

StatusNext == StatusMain \/ FanListeners \/ FanWorkers

StatusSpec == StatusInit /\ [][StatusNext]_vars

(* ------------------------------ vocabulary ------------------------------ *)
QueuesEmpty(m) ==
    lowQ[m] = << >> /\ highQ[m] = << >> /\ resLpQ[m] = << >> /\ resHpQ[m] = << >>

AllQueuesEmpty == \A m \in Managers : QueuesEmpty(m)

\* the step is taken by the dispatcher thread
DispatcherStep == << dpc, dmgr >>' # << dpc, dmgr >>

\* the step is a statement of the handler in progress
HandlerStep == cmdpc = "busy" /\ cmdOps' # cmdOps

\* the step receives an envelope
ReceiveStep == ncmds' # ncmds

\* envelope c is a command addressed to this supervisor
Addressed(c) ==
    c.type = 0 /\ (c.pidtarget = name \/ c.pidtarget = "all" \/ c.pidtarget = "*")

\* the handler in progress (or the last one run) is that of command s
Handling(s) == cur.subtype = s /\ Addressed(cur)

\* the step runs the last statement of the handler in progress
Completes == cmdpc = "busy" /\ cmdpc' # "busy"

\* the steady state a reset from Waiting leaves
ResetPost ==
    /\ status = "Waiting" /\ stopdata
    /\ \A m \in Managers : mstopdata[m] /\ processdata[m] = 0
    /\ AllQueuesEmpty

\* envelope c is one process_command has no branch for
Ignored(c) ==
    \/ c.type = 0 /\ ~Addressed(c)
    \/ c.type = 0 /\ c.subtype \notin Subtypes
    \/ c.type # 0 /\ c.type # 3

\* envelope c is one of the three commands that open a gate
Opening(c) ==
    Addressed(c) /\ c.subtype \in { "start", "startdata", "startprocessing" }

\* both gates are closed on the supervisor and on every manager, no listener
\* is inside a receive, and no frame has been received, queued, taken by a
\* worker or sent
Untouched ==
    /\ stopdata
    /\ \A m \in manager_workers : mstopdata[m] /\ processdata[m] = 0
    /\ \A c \in Classes : nframes[c] = 0 /\ lpc[c] # "recv"
    /\ \A m \in manager_workers :
          /\ QueuesEmpty(m)
          /\ \A w \in Workers : whand[m][w] = NoItem
          /\ sentLp[m] = {} /\ sentHp[m] = {}

\* queue q holds items of class c only, in the order of their receipt
InOrder(q, c) ==
    /\ \A i \in 1 .. Len(q) : q[i].cls = c
    /\ \A i, j \in 1 .. Len(q) : i < j => q[i].id < q[j].id

\* result queue q holds the result of the item with this id
Holds(q, id) == \E i \in 1 .. Len(q) : q[i].id = id

(* ------------------------------- claims --------------------------------- *)

\* C1: when a cleanedshutdown handled in Processing sets status to Shutdown
\* (status goes from EndingProcessing to Shutdown), all four queues of every
\* manager are empty.
C1_DrainedAtShutdown ==
    [][ (status = "EndingProcessing" /\ status' = "Shutdown") => AllQueuesEmpty' ]_vars

\* C2: once status is Shutdown it never takes another value.
C2_ShutdownTerminal ==
    [][ status = "Shutdown" => status' = "Shutdown" ]_vars

\* C3: while stopdata is true no listener receives a frame or pushes an item
\* into an input queue.
C3_IngressGated ==
    [][ stopdata =>
          /\ nframes' = nframes
          /\ \A m \in Managers : /\ Len(lowQ'[m]) <= Len(lowQ[m])
                                 /\ Len(highQ'[m]) <= Len(highQ[m]) ]_vars


\* C4: in a dispatcher pass over a manager at most one result leaves the
\* manager's result queues; the pass takes the head of the HP result queue when
\* it finds that queue non-empty, turns to the LP result queue only after
\* finding the HP queue empty, and removes nothing when it finds both empty.
C4_HpFirstDispatch ==
    [][ DispatcherStep =>
          /\ resHpQ' # resHpQ =>
                /\ dpc = "hp_pop" /\ dpc' = "send" /\ dchannel = 1
                /\ resHpQ' = [resHpQ EXCEPT ![dmgr] = Tail(@)]
                /\ resLpQ' = resLpQ
          /\ resLpQ' # resLpQ =>
                /\ dpc = "lp_pop" /\ dpc' = "send" /\ dchannel = 0
                /\ resLpQ' = [resLpQ EXCEPT ![dmgr] = Tail(@)]
                /\ resHpQ' = resHpQ
          \* a pass that has removed a result ends without removing another
          /\ dpc = "send" =>
                /\ dpc' \in {"size", "loop"}
                /\ resHpQ' = resHpQ /\ resLpQ' = resLpQ
          \* HP non-empty when tried: the HP head is the one taken
          /\ (dpc = "hp" /\ resHpQ[dmgr] # << >>) =>
                /\ dpc' = "hp_pop" /\ ddata' = Head(resHpQ[dmgr])
          \* the LP queue is tried only after the HP queue was found empty
          /\ dpc' = "lp" => (dpc \in {"hp", "hp_pop"} /\ resHpQ[dmgr] = << >>)
          /\ dpc' = "lp_pop" => dpc = "lp"
          /\ dpc' = "hp_pop" => dpc = "hp"
          /\ dpc' = "send" => dpc \in {"hp_pop", "lp_pop"}
          \* both empty: the pass ends and nothing is removed
          /\ (dpc = "size" /\ resLpQ[dmgr] = << >> /\ resHpQ[dmgr] = << >>) =>
                /\ dpc' \in {"size", "loop"}
                /\ resHpQ' = resHpQ /\ resLpQ' = resLpQ ]_vars

\* a pass has taken the HP head while an LP result was waiting
C4_Witness ==
    /\ dpc = "send" /\ dchannel = 1 /\ ddata.cls = "HP"
    /\ resLpQ[dmgr] # << >>

\* C5: every frame sent on a manager's HP result socket was taken from that
\* manager's HP result queue (an HP result of that manager), every frame sent
\* on its LP result socket from its LP result queue.
C5_ResultRouting ==
    /\ [](\A m \in Managers :
             /\ \A f \in sentHp[m] : f.cls = "HP" /\ f.by = m
             /\ \A f \in sentLp[m] : f.cls = "LP" /\ f.by = m
             /\ \A i \in 1 .. Len(resHpQ[m]) : resHpQ[m][i].cls = "HP" /\ resHpQ[m][i].by = m
             /\ \A i \in 1 .. Len(resLpQ[m]) : resLpQ[m][i].cls = "LP" /\ resLpQ[m][i].by = m)
    /\ [][ /\ sentHp' # sentHp =>
                /\ dpc = "send" /\ dchannel = 1 /\ ddata.cls = "HP"
                /\ sentHp' = [sentHp EXCEPT ![dmgr] = @ \cup {ddata}]
                /\ sentLp' = sentLp
           /\ sentLp' # sentLp =>
                /\ dpc = "send" /\ dchannel = 0 /\ ddata.cls = "LP"
                /\ sentLp' = [sentLp EXCEPT ![dmgr] = @ \cup {ddata}]
                /\ sentHp' = sentHp
           \* what the dispatcher holds was at the head of the queue of its channel
           /\ (DispatcherStep /\ ddata' # ddata /\ ddata' # NoItem) =>
                ddata' = IF dchannel' = 1 THEN Head(resHpQ[dmgr]) ELSE Head(resLpQ[dmgr])
         ]_vars

\* frames have gone out on both result sockets of a manager
C5_Witness ==
    \E m \in Managers : sentHp[m] # {} /\ sentLp[m] # {}


C7_StartStop ==
    [][ /\ (Handling("start") /\ Completes) =>
              /\ status' = "Processing" /\ ~stopdata'
              /\ \A m \in Managers : processdata'[m] = 1 /\ ~mstopdata'[m]
        /\ (Handling("stop") /\ Completes) =>
              /\ status' = "Waiting" /\ stopdata'
              /\ \A m \in Managers : processdata'[m] = 0 /\ mstopdata'[m]
        /\ (Handling("start") /\ HandlerStep
              /\ Head(cmdOps).op \in {"stopdata", "set_stopdata"}) =>
              /\ status = "Processing"
              /\ \A m \in Managers : processdata[m] = 1
        /\ (Handling("stop") /\ HandlerStep
              /\ Head(cmdOps).op \in {"status_info", "set_processdata"}) =>
              /\ stopdata
              /\ \A m \in Managers : mstopdata[m]
      ]_vars

\* a stop has been fully handled after processing had been started
C7_Witness ==
    /\ Handling("stop") /\ cur.prestatus = "Processing" /\ cmdpc # "busy"
    /\ status = "Waiting" /\ stopdata
    /\ \A m \in Managers : processdata[m] = 0

\* C8: receiving an envelope that process_command has no branch for (a command
\* for another target, an unknown subtype, a type other than 0 and 3) runs no
\* statement: status, continueall, the stopdata and processdata flags, every
\* queue and the monitoring socket are as before.
C8_IgnoredEnvelope ==
    [][ (ReceiveStep /\ Ignored(cur')) =>
           /\ cmdOps' = << >> /\ cmdpc' = "loop"
           /\ UNCHANGED << status, continueall, stopdata, mstopdata, processdata,
                           queueVars, monitoring >> ]_vars

\* an envelope with an unknown subtype has been received while processing
C8_Witness ==
    /\ cur.subtype = "nonsense" /\ Ignored(cur) /\ cur.prestatus = "Processing"
    /\ status = "Processing" /\ cmdpc = "loop"

\* C9 as claimed: across any step taken while a manager's processdata is 0 the
\* sizes of its input queues do not decrease.
C9_ProcessingGate ==
    [][ \A m \in Managers :
          processdata[m] = 0 =>
             /\ Len(lowQ'[m]) >= Len(lowQ[m])
             /\ Len(highQ'[m]) >= Len(highQ[m]) ]_vars

\* C9 amended: across any step taken while a manager's processdata is 0, other
\* than the clean_queue of a reset, the sizes of its input queues do not decrease.
C9_ProcessingGateExceptReset ==
    [][ \A m \in Managers :
          ( /\ processdata[m] = 0
            /\ ~(Handling("reset") /\ HandlerStep /\ Head(cmdOps).op = "clean_queue") ) =>
             /\ Len(lowQ'[m]) >= Len(lowQ[m])
             /\ Len(highQ'[m]) >= Len(highQ[m]) ]_vars

\* processing was stopped with an item waiting in an input queue and an idle worker
C9_Witness ==
    \E m \in Managers :
        /\ processdata[m] = 0 /\ cur.prestatus = "Processing" /\ cmdpc # "busy"
        /\ lowQ[m] # << >>
        /\ \A w \in Workers : wpc[m][w] = "idle"


\* C10: with the main thread, the workers and the dispatcher scheduled fairly,
\* whenever status is EndingProcessing it later is Shutdown and continueall
\* later is false; status becomes EndingProcessing from Processing only.
C10_EndingProcessingTransient ==
    /\ (status = "EndingProcessing") ~> (status = "Shutdown")
    /\ (status = "EndingProcessing") ~> (~continueall)
    /\ [][ (status' = "EndingProcessing" /\ status # "EndingProcessing") =>
             status = "Processing" ]_vars

\* a cleaned shutdown that found items to drain has run to its end
C10_Witness ==
    /\ Handling("cleanedshutdown") /\ cur.prestatus = "Processing"
    /\ ~continueall
    /\ nframes["LP"] = 1 /\ nframes["HP"] = 1
    /\ \E m \in Managers : sentLp[m] # {} /\ sentHp[m] # {}

\* C11: with every thread scheduled fairly and no frame assumed to arrive,
\* once continueall is false both ingress listener loops, the dispatcher loop
\* and the command loop are eventually left.
C11_CancellationLiveness ==
    (~continueall) ~>
        ( /\ \A c \in Classes : lpc[c] = "done"
          /\ dpc = "done"
          /\ cmdpc = "done" )

\* C12: after a shutdown command has been received, or a cleaned shutdown has
\* set status to Shutdown, continueall eventually is false; once false it stays
\* false; and from then on no item is pushed into an input queue, no envelope
\* is received and no statement of a command handler runs.
C12_NoWorkAfterCancel ==
    /\ (Handling("shutdown") \/ (Handling("cleanedshutdown") /\ status = "Shutdown"))
          ~> (~continueall)
    /\ [][ ~continueall =>
             /\ ~continueall'
             /\ \A m \in manager_workers : /\ Len(lowQ'[m]) <= Len(lowQ[m])
                                            /\ Len(highQ'[m]) <= Len(highQ[m])
             /\ ~ReceiveStep /\ ~HandlerStep
             /\ UNCHANGED << status, stopdata, mstopdata, processdata >> ]_vars

\* C13: with several managers, a step that receives a frame on the LP (HP)
\* ingress socket appends that frame once to the input-LP (input-HP) queue of
\* every manager and leaves every queue of the other class as it is; no other
\* step makes an input queue longer; every input queue holds items of its own
\* class only, in the order of their receipt.
C13_FanOut ==
    /\ [][ \A c \in Classes :
             nframes'[c] # nframes[c] =>
                /\ nframes'[c] = nframes[c] + 1
                /\ IF c = "LP"
                   THEN /\ \A m \in manager_workers :
                              lowQ'[m] = Append(lowQ[m], Frame(c, nframes'[c]))
                        /\ highQ' = highQ
                   ELSE /\ \A m \in manager_workers :
                              highQ'[m] = Append(highQ[m], Frame(c, nframes'[c]))
                        /\ lowQ' = lowQ ]_vars
    /\ [][ (\E m \in manager_workers : \/ Len(lowQ'[m]) > Len(lowQ[m])
                                        \/ Len(highQ'[m]) > Len(highQ[m]))
             => nframes' # nframes ]_vars
    /\ [](\A m \in manager_workers : InOrder(lowQ[m], "LP") /\ InOrder(highQ[m], "HP"))

\* two managers each hold the two LP frames in their order of receipt and an HP
\* frame, with processing started
C13_Witness ==
    /\ Cardinality(manager_workers) = 2
    /\ \A m \in manager_workers :
          /\ lowQ[m] = << Frame("LP", 1), Frame("LP", 2) >>
          /\ highQ[m] # << >>
          /\ processdata[m] = 1

\* C14: with the LP (HP) result endpoint "none", nothing is ever sent on the LP
\* (HP) result socket and no LP (HP) result on the other socket; the result the
\* dispatcher has taken from that queue is no longer in it and the pass ends
\* without a send; and, the dispatcher being scheduled fairly, every result in
\* that queue is eventually out of it, unless continueall becomes false.
C14_NoneDeadEnd ==
    /\ [](\A m \in Managers :
             /\ cfg.result_lp_socket = "none" =>
                   /\ sentLp[m] = {}
                   /\ \A f \in sentHp[m] : f.cls # "LP"
             /\ cfg.result_hp_socket = "none" =>
                   /\ sentHp[m] = {}
                   /\ \A f \in sentLp[m] : f.cls # "HP")
    /\ [][ ( /\ DispatcherStep /\ dpc = "send"
             /\ \/ dchannel = 0 /\ cfg.result_lp_socket = "none"
                \/ dchannel = 1 /\ cfg.result_hp_socket = "none" ) =>
               /\ ~Holds(resLpQ[dmgr], ddata.id) \/ ddata.cls # "LP"
               /\ ~Holds(resHpQ[dmgr], ddata.id) \/ ddata.cls # "HP"
               /\ UNCHANGED << sentLp, sentHp, queueVars >>
               /\ dpc' \in {"size", "loop"} ]_vars
    /\ \A m \in Managers, id \in 1 .. MaxFrames :
          /\ (cfg.result_lp_socket = "none" /\ Holds(resLpQ[m], id))
                ~> (~Holds(resLpQ[m], id) \/ ~continueall)
          /\ (cfg.result_hp_socket = "none" /\ Holds(resHpQ[m], id))
                ~> (~Holds(resHpQ[m], id) \/ ~continueall)

\* the dispatcher has taken the LP result from its queue and dropped it: the
\* one LP frame was processed after start, no other command came, nothing is
\* left of it and nothing was sent on the LP socket, while the HP result was sent
C14_Witness ==
    /\ cfg.result_lp_socket = "none" /\ continueall
    /\ ncmds = 1 /\ Handling("start") /\ nframes["LP"] = 1
    /\ dpc \in {"loop", "size"}
    /\ \A m \in Managers :
          /\ lowQ[m] = << >> /\ resLpQ[m] = << >>
          /\ \A w \in Workers : wpc[m][w] = "idle"
          /\ sentLp[m] = {} /\ sentHp[m] # {}

\* C15: a cleanedshutdown received while status is not Processing runs
\* status = Shutdown followed by stop_all(false) and nothing else: no statement
\* of it sets status to EndingProcessing or waits for a queue, and when it has
\* run every manager is stopped and continueall is false, whatever the queues hold.
C15_ForcedShutdown ==
    [][ /\ ( /\ ReceiveStep /\ cur'.subtype = "cleanedshutdown" /\ Addressed(cur')
             /\ status # "Processing" ) =>
              cmdOps' = << Op("status", "Shutdown", -1) >> \o stop_all(FALSE)
        /\ ( /\ Handling("cleanedshutdown") /\ cur.prestatus # "Processing"
             /\ HandlerStep ) =>
              /\ status' # "EndingProcessing"
              /\ Head(cmdOps).op \notin {"wait_input", "wait_result"}
              /\ UNCHANGED queueVars
        /\ ( /\ Handling("cleanedshutdown") /\ cur.prestatus # "Processing"
             /\ Completes ) =>
              /\ ~continueall'
              /\ \A m \in manager_workers : mstopped'[m]
      ]_vars

\* a cleanedshutdown received in Waiting has run to its end with an item still
\* in an input queue
C15_Witness ==
    /\ Handling("cleanedshutdown") /\ cur.prestatus = "Waiting"
    /\ cmdpc # "busy" /\ ~continueall
    /\ \E m \in manager_workers : lowQ[m] # << >> /\ mstopped[m]

\* C16: in filename mode, when the listener has handled a received path it is
\* back in its loop; if the file could not be opened or one of its lines fails
\* to parse, no input queue has changed; otherwise the records of its non-empty
\* lines have been appended, in file order, to the class's input queue of every
\* manager.
C16_BadFileAbandoned ==
    [][ \A c \in Classes :
          (lpc[c] = "open" /\ lpc'[c] # "open") =>
             LET file == lframe[c].file
                 bad == \/ ~file.opens
                        \/ \E i \in 1 .. Len(file.lines) : file.lines[i] = "garbage"
                 q == IF c = "HP" THEN highQ ELSE lowQ
                 qnext == IF c = "HP" THEN highQ' ELSE lowQ'
             IN  /\ lpc'[c] = "loop"
                 /\ bad => UNCHANGED << lowQ, highQ >>
                 /\ ~bad => \A m \in manager_workers :
                                qnext[m] = q[m] \o FileItems(c, nframes[c], file) ]_vars

\* C17: in binary mode, when the listener has handled a received frame it is
\* back in its loop, ready for the next frame; if the frame's text is not json
\* no input queue has changed, otherwise the decoded item has been appended to
\* the class's input queue of every manager.
C17_ParseErrorSurvived ==
    [][ \A c \in Classes :
          (lpc[c] = "parse" /\ lpc'[c] # "parse") =>
             LET q == IF c = "HP" THEN highQ ELSE lowQ
                 qnext == IF c = "HP" THEN highQ' ELSE lowQ'
             IN  /\ lpc'[c] = "loop"
                 /\ lframe[c].text = "garbage" => UNCHANGED << lowQ, highQ >>
                 /\ lframe[c].text = "json" =>
                       \A m \in manager_workers :
                           qnext[m] = Append(q[m], Datum(c, nframes[c])) ]_vars

\* C18: with an LP result endpoint and results in a form that is sent (binary),
\* when a cleanedshutdown received in Processing sets continueall to false, a
\* frame has been sent on the result-LP socket for every item that was in the
\* input-LP queue or in a worker's hand when the command was received; and no
\* frame is sent on that socket once continueall is false.
C18_NoLossOnCleanedShutdown ==
    [][ ( /\ Handling("cleanedshutdown") /\ cur.prestatus = "Processing"
          /\ cfg.result_lp_socket # "none" /\ cfg.result_dataflow_type = "binary" ) =>
            /\ (continueall /\ ~continueall') =>
                  \A x \in cur.pending : \E f \in sentLp[x[1]] : f.id = x[2]
            /\ ~continueall => sentLp' = sentLp ]_vars

\* C19: with dataflow_type string and result_dataflow_type string, when the
\* dispatcher has handled the result of a string item, taken from the result
\* queue of a class whose endpoint is set, one frame has gone out on that
\* class's result socket.
C19_StringEndToEnd ==
    [][ ( /\ DispatcherStep /\ dpc = "send"
          /\ cfg.dataflow_type = "string" /\ cfg.result_dataflow_type = "string" ) =>
            /\ (dchannel = 0 /\ cfg.result_lp_socket # "none") =>
                  sentLp' = [sentLp EXCEPT ![dmgr] = @ \cup {ddata}] /\ sentLp' # sentLp
            /\ (dchannel = 1 /\ cfg.result_hp_socket # "none") =>
                  sentHp' = [sentHp EXCEPT ![dmgr] = @ \cup {ddata}] /\ sentHp' # sentHp
      ]_vars

\* C20: a worker takes an item only while its manager's processdata is 1; it
\* takes the head of the input-HP queue when that queue is non-empty at that
\* moment, and the head of the input-LP queue only when input-HP is empty; the
\* result of an item is appended to the result queue of the item's class and
\* to no other.
C20_HpPreemption ==
    [][ \A m \in manager_workers, w \in Workers :
          /\ (wpc[m][w] = "idle" /\ wpc'[m][w] = "busy") =>
                /\ processdata[m] = 1
                /\ IF highQ[m] # << >>
                   THEN /\ whand'[m][w] = Head(highQ[m])
                        /\ highQ'[m] = Tail(highQ[m])
                        /\ lowQ' = lowQ
                   ELSE /\ lowQ[m] # << >>
                        /\ whand'[m][w] = Head(lowQ[m])
                        /\ lowQ'[m] = Tail(lowQ[m])
                        /\ highQ' = highQ
          /\ (wpc[m][w] = "busy" /\ wpc'[m][w] = "idle") =>
                IF whand[m][w].cls = "HP"
                THEN /\ Len(resHpQ'[m]) = Len(resHpQ[m]) + 1
                     /\ resHpQ'[m][Len(resHpQ'[m])].id = whand[m][w].id
                     /\ resLpQ' = resLpQ
                ELSE /\ Len(resLpQ'[m]) = Len(resLpQ[m]) + 1
                     /\ resLpQ'[m][Len(resLpQ'[m])].id = whand[m][w].id
                     /\ resHpQ' = resHpQ ]_vars

\* a worker has taken the HP item while an LP item was waiting
C20_Witness ==
    \E m \in manager_workers, w \in Workers :
        /\ wpc[m][w] = "busy" /\ whand[m][w].cls = "HP"
        /\ lowQ[m] # << >> /\ processdata[m] = 1

\* C21: a getstatus addressed to this supervisor is handled by one sendto per
\* manager, each with the command's pidsource as its target and each sending
\* one frame; neither the receipt nor any statement of the handler changes
\* status, continueall, stopdata, processdata or a queue
C21_GetStatus ==
    [][ /\ (ReceiveStep /\ cur'.subtype = "getstatus" /\ Addressed(cur')) =>
             /\ Len(cmdOps') = Cardinality(manager_workers)
             /\ \A m \in manager_workers :
                   \E i \in 1 .. Len(cmdOps') :
                       cmdOps'[i] = Op("sendto", cur'.pidsource, m)
             /\ UNCHANGED << flagVars, queueVars >>
        /\ (Handling("getstatus") /\ HandlerStep) =>
             /\ Head(cmdOps).op = "sendto"
             /\ Head(cmdOps).arg = cur.pidsource
             /\ monitoring' = monitoring + 1
             /\ UNCHANGED << flagVars, queueVars >>
      ]_vars

\* a getstatus sent by "mon" has been answered while items were waiting
C21_Witness ==
    /\ Handling("getstatus") /\ cur.pidsource = "mon" /\ cmdpc = "loop"
    /\ status = "Processing"
    /\ \E m \in manager_workers : lowQ[m] # << >>

\* C22: the receipt of a command frame that is not json, or whose header
\* lacks a field, leaves the main thread in its command loop, with nothing to
\* run, and changes none of status, continueall, stopdata, processdata; and
\* the command loop is left only with continueall false after a shutdown or
\* cleanedshutdown command or a signal
C22_CommandErrorContained ==
    /\ [][ (ReceiveStep /\ cur'.subtype \in BadCommandFrames) =>
              /\ cmdpc' = "loop" /\ cmdOps' = << >>
              /\ UNCHANGED << status, continueall, stopdata, processdata >>
         ]_vars
    /\ [] ( cmdpc \in { "done", "terminate" } =>
              /\ cmdpc = "done" /\ ~continueall
              /\ \/ Handling("shutdown") \/ Handling("cleanedshutdown")
                 \/ signalled # 0 )

\* C23: once a SIGINT or SIGTERM handler has run and both it and the command
\* it cut into have finished, continueall is false, stopdata is true on the
\* supervisor and on every manager, and processdata is 0 on every manager
C23_SignalConsistency ==
    (signalled # 0 /\ cmdpc \in { "loop", "done" }) =>
        /\ ~continueall
        /\ stopdata
        /\ \A m \in manager_workers : mstopdata[m] /\ processdata[m] = 0

\* C24: while status is Initialised the main thread is still in start(),
\* stopdata is true and processdata is 0; status is not Initialised when the
\* main thread waits for a command or has received one; nothing has been
\* received or processed before the first envelope; and the state in which
\* the gates are closed and nothing has been received or processed is left
\* only by a statement of the handler of start, startdata or startprocessing
C24_StartupOrdering ==
    /\ [] ( status = "Initialised" =>
              /\ cmdpc = "busy" /\ ncmds = 0
              /\ stopdata
              /\ \A m \in manager_workers : processdata[m] = 0 )
    /\ [] ( (cmdpc = "recv" \/ ncmds > 0) => status # "Initialised" )
    /\ [] ( ncmds = 0 => Untouched )
    /\ [][ (Untouched /\ ~Untouched') => (HandlerStep /\ Opening(cur)) ]_vars

\* two envelopes have been handled, the second a stopdata from Waiting, with
\* the listeners running, and still nothing has been received
C24_Witness ==
    /\ ncmds = 2 /\ Handling("stopdata") /\ cur.prestatus = "Waiting"
    /\ cmdpc = "loop" /\ status = "Waiting"
    /\ \A c \in Classes : lpc[c] = "loop"
    /\ Untouched

\* C25: whenever the main thread is between handlers (no command handler and
\* no signal handler is in progress), every manager's stopdata flag equals
\* the supervisor's
C25_FlagMirroring ==
    cmdpc \in { "loop", "recv", "done" } =>
        \A m \in manager_workers : mstopdata[m] = stopdata

\* C26: whenever the main thread is between handlers, every manager's
\* processdata is 1 if status is Processing and 0 otherwise
C26_StatusProcessing ==
    cmdpc \in { "loop", "recv", "done" } =>
        \A m \in manager_workers :
            processdata[m] = IF status = "Processing" THEN 1 ELSE 0

\* C27: no statement of the startdata or stopdata handler changes status,
\* processdata, continueall, the stopped mark or a queue, and the handler ends
\* with stopdata false (true) on the supervisor and every manager; no
\* statement of the startprocessing or stopprocessing handler changes a
\* stopdata flag, continueall, the stopped mark or a queue, and the handler
\* ends with status Processing and processdata 1 (Waiting and 0)
C27_GateOrthogonality ==
    [][ /\ (HandlerStep /\ (Handling("startdata") \/ Handling("stopdata"))) =>
             /\ UNCHANGED << status, processdata, continueall, mstopped, queueVars >>
             /\ Completes =>
                   /\ stopdata' = (cur.subtype = "stopdata")
                   /\ \A m \in manager_workers : mstopdata'[m] = stopdata'
        /\ (HandlerStep /\ (Handling("startprocessing") \/ Handling("stopprocessing"))) =>
             /\ UNCHANGED << stopdata, mstopdata, continueall, mstopped, queueVars >>
             /\ Completes =>
                   /\ status' = IF cur.subtype = "startprocessing"
                                THEN "Processing" ELSE "Waiting"
                   /\ \A m \in manager_workers :
                         processdata'[m] = IF cur.subtype = "startprocessing"
                                           THEN 1 ELSE 0
      ]_vars

\* stopprocessing has been handled in Processing with the data gate open and
\* an item waiting: the gate is still open and the item still there
C27_Witness ==
    /\ Handling("stopprocessing") /\ cur.prestatus = "Processing"
    /\ cmdpc = "loop" /\ status = "Waiting"
    /\ ~stopdata
    /\ \E m \in manager_workers : lowQ[m] # << >> /\ processdata[m] = 0

\* C28: whenever the dispatcher, with a result in hand for a class whose
\* endpoint is not "none", comes to send it, the result socket of that
\* manager and class exists, whatever the result socket kind is
C28_ResultSocketExists ==
    [][ (dpc = "send" /\ DispatcherStep /\ Attempted) =>
            socket_result(dchannel) # "nullptr" ]_vars

=============================================================================
